---- MODULE Spec2Model ----
(***************************************************************************)
(* Model of howto (techquestsdev/howto): the provider registry             *)
(* (internal/provider/provider.go), the timeout resolution, the two        *)
(* response sanitizers (internal/prompt, internal/provider/copilot.go) and *)
(* the HTTP query pipelines (provider.go, anthropic.go).                   *)
(*                                                                         *)
(* Text is modelled as a sequence of one-character strings, so that the    *)
(* string routines of the code are computed character by character.        *)
(* Durations are integers in milliseconds.                                 *)
(***************************************************************************)
EXTENDS Integers, Sequences, FiniteSets, TLC

VARIABLES
    env,          \* process environment: API-key variable -> value ("" when unset)
    ghInstalled,  \* exec.LookPath("gh") succeeds
    copilotWorks, \* "gh copilot -- --version" exits with status 0
    Configured,   \* Provider.Configured of the five shared descriptors
    lastSet,      \* the API-key variable most recently written ("" at start)
    ret,          \* what the registry call that has just returned handed back
    flagTimeout,  \* the --timeout flag (0 when not given)
    howtoTimeout, \* the text of HOWTO_TIMEOUT (empty when unset)
    tret,         \* what GetTimeout returned
    raw,          \* the provider's raw reply
    path,         \* "http": reply of an HTTP provider; "cli": standard output of gh copilot
    stage,        \* how far the reply has been processed
    text,         \* the reply as processed so far
    qin,          \* what the outside world does during one Query call
    qret,         \* what Query returned
    rin,          \* one run of the command: its flags, HOWTO_ variables, terminal and peers
    pc,           \* where runHowto stands
    outbound,     \* the outbound requests the run has issued, in order
    chosen,       \* the provider, credential and model the run settled on
    rerr,         \* the error runHowto returns
    command,      \* the sanitized command
    stdout,       \* what the run has written to standard output, in order
    ttyInput      \* what the run has pushed into the terminal's input queue

regVars == <<env, ghInstalled, copilotWorks, Configured, lastSet, ret>>

timeVars == <<flagTimeout, howtoTimeout, tret>>

sanVars == <<raw, path, stage, text>>

queryVars == <<qin, qret>>

runVars == <<rin, pc, outbound, chosen, rerr, command, stdout, ttyInput>>

vars == <<regVars, timeVars, sanVars, queryVars, runVars>>

(***************************************************************************)
(* Provider descriptors                                                    *)
(***************************************************************************)
OpenAI ==
    [Name |-> "OpenAI", DefaultModel |-> "gpt-4o",
     EnvVar |-> "OPENAI_API_KEY", AuthType |-> "AuthBearer"]

Anthropic ==
    [Name |-> "Anthropic", DefaultModel |-> "claude-sonnet-4-20250514",
     EnvVar |-> "ANTHROPIC_API_KEY", AuthType |-> "AuthAPIKey"]

Gemini ==
    [Name |-> "Gemini", DefaultModel |-> "gemini-2.0-flash",
     EnvVar |-> "GEMINI_API_KEY", AuthType |-> "AuthBearer"]

DeepSeek ==
    [Name |-> "DeepSeek", DefaultModel |-> "deepseek-chat",
     EnvVar |-> "DEEPSEEK_API_KEY", AuthType |-> "AuthBearer"]

GitHubCopilot ==
    [Name |-> "GitHub Copilot", DefaultModel |-> "gpt-4",
     EnvVar |-> "", AuthType |-> "AuthCLI"]

\* A mis-ordered registry: Anthropic scanned before OpenAI.
apiProvidersSwapped == <<Anthropic, OpenAI, Gemini, DeepSeek>>

apiProviders == <<OpenAI, Anthropic, Gemini, DeepSeek>>

ProviderNames ==
    {apiProviders[i].Name : i \in 1..Len(apiProviders)} \cup {GitHubCopilot.Name}

EnvVars == {apiProviders[i].EnvVar : i \in 1..Len(apiProviders)}

\* The nil *Provider.
Nil == "nil"

\* The non-empty credential each variable may hold (one value per variable,
\* so that a credential read from the wrong variable shows).
TestKey ==
    [v \in EnvVars |->
        CASE v = "OPENAI_API_KEY" -> "openai-key"
          [] v = "ANTHROPIC_API_KEY" -> "anthropic-key"
          [] v = "GEMINI_API_KEY" -> "gemini-key"
          [] OTHER -> "deepseek-key"]

\* Names handed to GetByName: the five names, the two aliases, and strangers.
Names ==
    {"OpenAI", "Anthropic", "Gemini", "DeepSeek",
     "GitHub Copilot", "Copilot", "copilot",
     "openai", "github copilot", "UnknownProvider"}

\* os.Getenv: an unset variable reads as the empty string.
Getenv(e, v) == e[v]

IsCopilotAvailable(gh, works) ==
    IF ~gh THEN FALSE ELSE works

(***************************************************************************)
(* Detect, GetByName, ListAll                                              *)
(***************************************************************************)
RECURSIVE DetectFrom(_, _, _, _)
DetectFrom(i, e, gh, works) ==
    IF i > Len(apiProviders)
    THEN IF IsCopilotAvailable(gh, works)
         THEN [p |-> GitHubCopilot.Name, key |-> "", mark |-> TRUE]
         ELSE [p |-> Nil, key |-> "", mark |-> FALSE]
    ELSE IF Getenv(e, apiProviders[i].EnvVar) # ""
         THEN [p |-> apiProviders[i].Name,
               key |-> Getenv(e, apiProviders[i].EnvVar), mark |-> TRUE]
         ELSE DetectFrom(i + 1, e, gh, works)

Detect(e, gh, works) == DetectFrom(1, e, gh, works)

\* GetByName with the not-configured check of the API branch left out.
RECURSIVE GetByNameNoKeyCheck(_, _, _, _, _)
GetByNameNoKeyCheck(i, name, e, gh, works) ==
    IF i > Len(apiProviders)
    THEN IF name = GitHubCopilot.Name \/ name = "Copilot" \/ name = "copilot"
         THEN IF ~IsCopilotAvailable(gh, works)
              THEN [p |-> Nil, key |-> "", err |-> "NotConfigured", mark |-> FALSE]
              ELSE [p |-> GitHubCopilot.Name, key |-> "", err |-> "", mark |-> TRUE]
         ELSE [p |-> Nil, key |-> "", err |-> "Unknown", mark |-> FALSE]
    ELSE IF apiProviders[i].Name = name
         THEN [p |-> apiProviders[i].Name,
               key |-> Getenv(e, apiProviders[i].EnvVar),
               err |-> "", mark |-> TRUE]
         ELSE GetByNameNoKeyCheck(i + 1, name, e, gh, works)

RECURSIVE GetByNameFrom(_, _, _, _, _)
GetByNameFrom(i, name, e, gh, works) ==
    IF i > Len(apiProviders)
    THEN IF name = GitHubCopilot.Name \/ name = "Copilot" \/ name = "copilot"
         THEN IF ~IsCopilotAvailable(gh, works)
              THEN [p |-> Nil, key |-> "", err |-> "NotConfigured", mark |-> FALSE]
              ELSE [p |-> GitHubCopilot.Name, key |-> "", err |-> "", mark |-> TRUE]
         ELSE [p |-> Nil, key |-> "", err |-> "Unknown", mark |-> FALSE]
    ELSE IF apiProviders[i].Name = name
         THEN IF Getenv(e, apiProviders[i].EnvVar) = ""
              THEN [p |-> Nil, key |-> "", err |-> "NotConfigured", mark |-> FALSE]
              ELSE [p |-> apiProviders[i].Name,
                    key |-> Getenv(e, apiProviders[i].EnvVar),
                    err |-> "", mark |-> TRUE]
         ELSE GetByNameFrom(i + 1, name, e, gh, works)

GetByName(name, e, gh, works) == GetByNameFrom(1, name, e, gh, works)

ProviderInfo(p, e) ==
    [Name |-> p.Name, DefaultModel |-> p.DefaultModel, EnvVar |-> p.EnvVar,
     Configured |-> (Getenv(e, p.EnvVar) # "")]

\* ListAll with the CLI record put first instead of last.
ListAllCopilotFirst(e, gh, works) ==
    <<[Name |-> GitHubCopilot.Name, DefaultModel |-> GitHubCopilot.DefaultModel,
       EnvVar |-> "gh copilot (CLI)",
       Configured |-> IsCopilotAvailable(gh, works)]>>
    \o [i \in 1..Len(apiProviders) |-> ProviderInfo(apiProviders[i], e)]

ListAll(e, gh, works) ==
    [i \in 1..Len(apiProviders) |-> ProviderInfo(apiProviders[i], e)]
    \o <<[Name |-> GitHubCopilot.Name, DefaultModel |-> GitHubCopilot.DefaultModel,
          EnvVar |-> "gh copilot (CLI)",
          Configured |-> IsCopilotAvailable(gh, works)]>>

(***************************************************************************)
(* Each part of the program at rest, for the runs that exercise another    *)
(* part.                                                                   *)
(***************************************************************************)
NoCall == [op |-> "none"]

NotCalled == [called |-> FALSE]

RegIdle ==
    /\ env = [v \in EnvVars |-> ""]
    /\ ghInstalled = FALSE
    /\ copilotWorks = FALSE
    /\ Configured = [n \in ProviderNames |-> FALSE]
    /\ lastSet = ""
    /\ ret = NoCall

TimeIdle ==
    /\ flagTimeout = 0
    /\ howtoTimeout = <<>>
    /\ tret = NotCalled

SanIdle ==
    /\ raw = <<>>
    /\ path = "http"
    /\ stage = "idle"
    /\ text = <<>>

\* No Query call under way: a well-formed exchange that is never used.
QuietExchange ==
    [p |-> "OpenAI", ctxErr |-> "nil", net |-> "ok", status |-> 200,
     body |-> [json |-> FALSE, text |-> ""],
     ghFound |-> TRUE, runFails |-> FALSE, stderr |-> <<>>, stdout |-> <<>>]

NoQuery == [called |-> FALSE]

QueryIdle ==
    /\ qin = QuietExchange
    /\ qret = NoQuery

NoError == [kind |-> "none"]

\* No run of the command under way.
NoRun ==
    [providerFlag |-> "", modelFlag |-> "", dryRunFlag |-> FALSE,
     HOWTO_PROVIDER |-> "", HOWTO_MODEL |-> "", tty |-> "inserts",
     probeHangs |-> FALSE, answers |-> TRUE]

NoProvider == [p |-> Nil, key |-> "", model |-> ""]

RunIdle ==
    /\ rin = NoRun
    /\ pc = "idle"
    /\ outbound = <<>>
    /\ chosen = NoProvider
    /\ rerr = NoError
    /\ command = <<>>
    /\ stdout = <<>>
    /\ ttyInput = <<>>

(***************************************************************************)
(* The registry as a state machine: the environment changes between calls. *)
(***************************************************************************)
RegInit ==
    /\ env = [v \in EnvVars |-> ""]
    /\ ghInstalled \in BOOLEAN
    /\ copilotWorks \in BOOLEAN
    /\ Configured = [n \in ProviderNames |-> FALSE]
    /\ lastSet = ""
    /\ ret = NoCall

\* os.Setenv / t.Setenv / os.Unsetenv on one API-key variable.
Setenv(v, val) ==
    /\ env' = [env EXCEPT ![v] = val]
    /\ lastSet' = v
    /\ ret' = NoCall
    /\ UNCHANGED <<ghInstalled, copilotWorks, Configured>>
    /\ UNCHANGED <<timeVars, sanVars, queryVars, runVars>>

\* gh or its copilot command is installed or removed.
ChangeTool(gh, works) ==
    /\ <<gh, works>> # <<ghInstalled, copilotWorks>>
    /\ ghInstalled' = gh
    /\ copilotWorks' = works
    /\ ret' = NoCall
    /\ UNCHANGED <<env, Configured, lastSet>>
    /\ UNCHANGED <<timeVars, sanVars, queryVars, runVars>>

CallDetect ==
    LET r == Detect(env, ghInstalled, copilotWorks) IN
    /\ ret' = [op |-> "Detect", p |-> r.p, key |-> r.key]
    /\ Configured' = IF r.mark THEN [Configured EXCEPT ![r.p] = TRUE] ELSE Configured
    /\ UNCHANGED <<env, ghInstalled, copilotWorks, lastSet>>
    /\ UNCHANGED <<timeVars, sanVars, queryVars, runVars>>

CallGetByName(name) ==
    LET r == GetByName(name, env, ghInstalled, copilotWorks) IN
    /\ ret' = [op |-> "GetByName", name |-> name, p |-> r.p, key |-> r.key, err |-> r.err]
    /\ Configured' = IF r.mark THEN [Configured EXCEPT ![r.p] = TRUE] ELSE Configured
    /\ UNCHANGED <<env, ghInstalled, copilotWorks, lastSet>>
    /\ UNCHANGED <<timeVars, sanVars, queryVars, runVars>>

CallListAll ==
    /\ ret' = [op |-> "ListAll", list |-> ListAll(env, ghInstalled, copilotWorks)]
    /\ UNCHANGED <<env, ghInstalled, copilotWorks, Configured, lastSet>>
    /\ UNCHANGED <<timeVars, sanVars, queryVars, runVars>>

RegNext ==
    \/ \E v \in EnvVars : \E val \in {"", TestKey[v]} : Setenv(v, val)
    \/ \E gh \in BOOLEAN, works \in BOOLEAN : ChangeTool(gh, works)
    \/ CallDetect
    \/ \E name \in Names : CallGetByName(name)
    \/ CallListAll


(***************************************************************************)
(* GetTimeout and the duration parser it calls                             *)
(***************************************************************************)
\* 30 * time.Second, in milliseconds.
DefaultTimeout == 30 * 1000

IsDigit(c) == c \in {"0", "1", "2", "3", "4", "5", "6", "7", "8", "9"}

DigitVal(c) ==
    CASE c = "0" -> 0 [] c = "1" -> 1 [] c = "2" -> 2 [] c = "3" -> 3
      [] c = "4" -> 4 [] c = "5" -> 5 [] c = "6" -> 6 [] c = "7" -> 7
      [] c = "8" -> 8 [] OTHER -> 9

\* time.unitMap, in milliseconds (the units below one millisecond need
\* letters the checked texts do not contain).
unitMap ==
    [u \in {<<"m", "s">>, <<"s">>, <<"m">>, <<"h">>} |->
        CASE u = <<"m", "s">> -> 1
          [] u = <<"s">> -> 1000
          [] u = <<"m">> -> 60 * 1000
          [] OTHER -> 60 * 60 * 1000]

\* time.leadingInt: the leading digits of s, as a number, and the rest.
RECURSIVE leadingInt(_, _)
leadingInt(v, s) ==
    IF s # <<>> /\ IsDigit(Head(s))
    THEN leadingInt(v * 10 + DigitVal(Head(s)), Tail(s))
    ELSE [v |-> v, rest |-> s]

\* The unit: every character up to the next digit or period.
RECURSIVE unitLen(_)
unitLen(s) ==
    IF s = <<>> \/ IsDigit(Head(s)) \/ Head(s) = "." THEN 0 ELSE 1 + unitLen(Tail(s))

\* The loop of time.ParseDuration over the groups <digits><unit>.
RECURSIVE parseGroups(_, _)
parseGroups(d, s) ==
    IF s = <<>> THEN [ok |-> TRUE, d |-> d]
    ELSE IF ~IsDigit(Head(s)) THEN [ok |-> FALSE, d |-> 0]
    ELSE LET li == leadingInt(0, s)
             i == unitLen(li.rest)
             u == SubSeq(li.rest, 1, i)
         IN IF i = 0 THEN [ok |-> FALSE, d |-> 0]
            ELSE IF u \notin DOMAIN unitMap THEN [ok |-> FALSE, d |-> 0]
            ELSE parseGroups(d + li.v * unitMap[u], SubSeq(li.rest, i + 1, Len(li.rest)))

\* time.ParseDuration on texts without a fraction: [-+]?([0-9]+[a-z]+)+ or "0".
ParseDuration(s) ==
    LET signed == s # <<>> /\ Head(s) \in {"-", "+"}
        neg == s # <<>> /\ Head(s) = "-"
        body == IF signed THEN Tail(s) ELSE s
    IN IF body = <<"0">> THEN [ok |-> TRUE, d |-> 0]
       ELSE IF body = <<>> THEN [ok |-> FALSE, d |-> 0]
       ELSE LET r == parseGroups(0, body) IN
            IF ~r.ok THEN r
            ELSE IF neg THEN [ok |-> TRUE, d |-> 0 - r.d] ELSE r

\* GetTimeout with the environment variable consulted before the flag.
GetTimeoutEnvFirst(flag, envTimeout) ==
    IF envTimeout # <<>> /\ ParseDuration(envTimeout).ok
    THEN ParseDuration(envTimeout).d
    ELSE IF flag > 0 THEN flag ELSE DefaultTimeout

GetTimeout(flag, envTimeout) ==
    IF flag > 0 THEN flag
    ELSE IF envTimeout # <<>> /\ ParseDuration(envTimeout).ok
         THEN ParseDuration(envTimeout).d
         ELSE DefaultTimeout

\* Longest HOWTO_TIMEOUT text checked.
MaxDurationLen == 3

DurationChars == {"-", "0", "4", "5", "s", "m", "x"}

RECURSIVE TextsUpTo(_, _)
TextsUpTo(chars, n) ==
    IF n = 0 THEN {<<>>}
    ELSE LET shorter == TextsUpTo(chars, n - 1) IN
         shorter \cup {<<c>> \o t : c \in chars, t \in {x \in shorter : Len(x) = n - 1}}

DurationTexts == TextsUpTo(DurationChars, MaxDurationLen)

\* Values of the --timeout flag, in milliseconds: absent, negative, 1s, 60s.
FlagValues == {0, 0 - 5000, 1000, 60 * 1000}

TimeInputs ==
    /\ flagTimeout \in FlagValues
    /\ howtoTimeout \in DurationTexts
    /\ tret = NotCalled

CallGetTimeout ==
    /\ ~tret.called
    /\ tret' = [called |-> TRUE, d |-> GetTimeout(flagTimeout, howtoTimeout)]
    /\ UNCHANGED <<flagTimeout, howtoTimeout>>
    /\ UNCHANGED <<regVars, sanVars, queryVars, runVars>>

TimeInit == TimeInputs /\ RegIdle /\ SanIdle /\ QueryIdle /\ RunIdle

TimeNext == CallGetTimeout

SpecTimeout == TimeInit /\ [][TimeNext]_vars

C22_TimeoutPositive == tret.called => tret.d > 0

Backtick == "BACKQUOTE"

IsSpace(c) == c \in {" ", "\n", "\t", "\r"}

RECURSIVE TrimLeftSpace(_)
TrimLeftSpace(s) ==
    IF s # <<>> /\ IsSpace(Head(s)) THEN TrimLeftSpace(Tail(s)) ELSE s

RECURSIVE TrimRightSpace(_)
TrimRightSpace(s) ==
    IF s # <<>> /\ IsSpace(s[Len(s)]) THEN TrimRightSpace(SubSeq(s, 1, Len(s) - 1)) ELSE s

\* strings.TrimSpace
TrimSpace(s) == TrimRightSpace(TrimLeftSpace(s))

\* strings.HasPrefix
HasPrefix(s, prefix) ==
    Len(s) >= Len(prefix) /\ SubSeq(s, 1, Len(prefix)) = prefix

\* strings.Contains
Contains(s, sub) ==
    \E i \in 0..(Len(s) - Len(sub)) : SubSeq(s, i + 1, i + Len(sub)) = sub

\* strings.TrimPrefix
TrimPrefix(s, prefix) ==
    IF HasPrefix(s, prefix) THEN SubSeq(s, Len(prefix) + 1, Len(s)) ELSE s

\* strings.Split(s, "\n"): the lines of s (one empty line for the empty text).
RECURSIVE SplitLines(_, _)
SplitLines(s, line) ==
    IF s = <<>> THEN <<line>>
    ELSE IF Head(s) = "\n" THEN <<line>> \o SplitLines(Tail(s), <<>>)
    ELSE SplitLines(Tail(s), Append(line, Head(s)))

Split(s) == SplitLines(s, <<>>)

\* strings.Join(lines, "\n")
RECURSIVE Join(_)
Join(lines) ==
    IF lines = <<>> THEN <<>>
    ELSE IF Len(lines) = 1 THEN lines[1]
    ELSE lines[1] \o <<"\n">> \o Join(Tail(lines))

RECURSIVE TrimLeftBackticks(_)
TrimLeftBackticks(s) ==
    IF s # <<>> /\ Head(s) = Backtick THEN TrimLeftBackticks(Tail(s)) ELSE s

RECURSIVE TrimRightBackticks(_)
TrimRightBackticks(s) ==
    IF s # <<>> /\ s[Len(s)] = Backtick
    THEN TrimRightBackticks(SubSeq(s, 1, Len(s) - 1)) ELSE s

\* strings.Trim(s, backtick)
TrimBackticks(s) == TrimRightBackticks(TrimLeftBackticks(s))

lowerLetters ==
    <<"a", "b", "c", "d", "e", "f", "g", "h", "i", "j", "k", "l", "m",
      "n", "o", "p", "q", "r", "s", "t", "u", "v", "w", "x", "y", "z">>

upperLetters ==
    <<"A", "B", "C", "D", "E", "F", "G", "H", "I", "J", "K", "L", "M",
      "N", "O", "P", "Q", "R", "S", "T", "U", "V", "W", "X", "Y", "Z">>

LowerOf(c) ==
    IF \E i \in 1..26 : upperLetters[i] = c
    THEN lowerLetters[CHOOSE i \in 1..26 : upperLetters[i] = c] ELSE c

UpperOf(c) ==
    IF \E i \in 1..26 : lowerLetters[i] = c
    THEN upperLetters[CHOOSE i \in 1..26 : lowerLetters[i] = c] ELSE c

\* strings.ToLower, strings.ToUpper
ToLower(s) == [i \in 1..Len(s) |-> LowerOf(s[i])]

ToUpper(s) == [i \in 1..Len(s) |-> UpperOf(s[i])]

\* The line breaks left in place.
KeepNewlines(s) == s

\* strings.ReplaceAll(s, "\n", " ")
NewlinesToSpaces(s) == [i \in 1..Len(s) |-> IF s[i] = "\n" THEN " " ELSE s[i]]

\* strings.Contains(s, "  ")
ContainsDoubleSpace(s) == \E i \in 1..(Len(s) - 1) : s[i] = " " /\ s[i + 1] = " "

\* strings.ReplaceAll(s, "  ", " "): one left-to-right pass over
\* non-overlapping pairs.
RECURSIVE HalveSpaces(_)
HalveSpaces(s) ==
    IF Len(s) < 2 THEN s
    ELSE IF s[1] = " " /\ s[2] = " "
         THEN <<" ">> \o HalveSpaces(SubSeq(s, 3, Len(s)))
         ELSE <<s[1]>> \o HalveSpaces(Tail(s))

\* for strings.Contains(cmd, "  ") { cmd = strings.ReplaceAll(cmd, "  ", " ") }
RECURSIVE CollapseSpaces(_)
CollapseSpaces(s) ==
    IF ContainsDoubleSpace(s) THEN CollapseSpaces(HalveSpaces(s)) ELSE s

Fence == <<Backtick, Backtick, Backtick>>

(***************************************************************************)
(* SanitizeCommand (package prompt) and CleanCopilotResponse               *)
(***************************************************************************)
Languages ==
    << <<"b", "a", "s", "h">>, <<"s", "h">>, <<"z", "s", "h">>,
       <<"s", "h", "e", "l", "l">>, <<"c", "m", "d">>,
       <<"p", "o", "w", "e", "r", "s", "h", "e", "l", "l">> >>

\* The first and last lines of a fenced reply of more than two lines go.
StripFenceLines(cmd) ==
    IF HasPrefix(cmd, Fence)
    THEN LET lines == Split(cmd) IN
         IF Len(lines) > 2 THEN Join(SubSeq(lines, 2, Len(lines) - 1)) ELSE cmd
    ELSE cmd

\* The body of the language loop for one language.
StripLanguage(cmd, lang) ==
    IF HasPrefix(ToLower(cmd), lang \o <<"\n">>)
    THEN TrimPrefix(TrimPrefix(cmd, lang \o <<"\n">>), ToUpper(lang) \o <<"\n">>)
    ELSE cmd

RECURSIVE StripLanguages(_, _)
StripLanguages(cmd, i) ==
    IF i > Len(Languages) THEN cmd
    ELSE StripLanguages(StripLanguage(cmd, Languages[i]), i + 1)

SanitizeCommand(cmd) ==
    TrimSpace(CollapseSpaces(NewlinesToSpaces(
        StripLanguages(TrimBackticks(StripFenceLines(TrimSpace(cmd))), 1))))

\* The loop of CleanCopilotResponse with a fence test that looks for the
\* marker anywhere in the line.
RECURSIVE CleanLinesAnyFence(_, _, _, _)
CleanLinesAnyFence(lines, i, cleaned, inCodeBlock) ==
    IF i > Len(lines) THEN cleaned
    ELSE LET line == lines[i]
             trimmed == TrimSpace(line)
         IN IF Len(cleaned) = 0 /\ trimmed = <<>>
            THEN CleanLinesAnyFence(lines, i + 1, cleaned, inCodeBlock)
            ELSE IF Contains(trimmed, Fence)
                 THEN CleanLinesAnyFence(lines, i + 1, cleaned, ~inCodeBlock)
                 ELSE CleanLinesAnyFence(lines, i + 1, Append(cleaned, line), inCodeBlock)

\* The loop of CleanCopilotResponse over the lines, from line i on.
RECURSIVE CleanLines(_, _, _, _)
CleanLines(lines, i, cleaned, inCodeBlock) ==
    IF i > Len(lines) THEN cleaned
    ELSE LET line == lines[i]
             trimmed == TrimSpace(line)
         IN IF Len(cleaned) = 0 /\ trimmed = <<>>
            THEN CleanLines(lines, i + 1, cleaned, inCodeBlock)
            ELSE IF HasPrefix(trimmed, Fence)
                 THEN CleanLines(lines, i + 1, cleaned, ~inCodeBlock)
                 ELSE IF inCodeBlock \/ ~HasPrefix(trimmed, Fence)
                      THEN CleanLines(lines, i + 1, Append(cleaned, line), inCodeBlock)
                      ELSE CleanLines(lines, i + 1, cleaned, inCodeBlock)

CleanCopilotResponse(response) ==
    TrimSpace(TrimBackticks(Join(CleanLines(Split(response), 1, <<>>, FALSE))))

(***************************************************************************)
(* Replies the sanitizers are applied to                                   *)
(***************************************************************************)
\* Pieces a reply is made of: backtick, fence, space, line break, a command
\* word, and language words in lower, upper and mixed case.
Pieces ==
    {<<Backtick>>, Fence, <<" ">>, <<"\n">>, <<"l", "s">>,
     <<"s", "h">>, <<"B", "a", "s", "h">>, <<"S", "H">>}

\* Most pieces in a reply.
MaxPieces == 4

RECURSIVE Flatten(_)
Flatten(ps) == IF ps = <<>> THEN <<>> ELSE Head(ps) \o Flatten(Tail(ps))

PieceReplies == {Flatten(ps) : ps \in TextsUpTo(Pieces, MaxPieces)}

\* A language word in each casing, a line break, then a command.
Capitalised(w) == <<UpperOf(w[1])>> \o Tail(w)

LanguageReplies ==
    {w \o <<"\n", "l", "s">> :
        w \in UNION {{Languages[i], ToUpper(Languages[i]), Capitalised(Languages[i])} :
                        i \in 1..Len(Languages)}}

\* Replies the tests feed to the two sanitizers.
TestReplies ==
    {<<"l", "s", " ", "-", "l", "a">>,
     <<" ", " ", "l", "s", " ", "-", "l", "a", " ", " ">>,
     <<Backtick, Backtick, Backtick, "b", "a", "s", "h", "\n", "l", "s", " ", "-", "l", "a", "\n", Backtick, Backtick, Backtick>>,
     <<Backtick, Backtick, Backtick, "\n", "l", "s", " ", "-", "l", "a", "\n", Backtick, Backtick, Backtick>>,
     <<Backtick, "l", "s", " ", "-", "l", "a", Backtick>>,
     <<"l", "s", " ", "-", "l", "a", "\n", "p", "w", "d">>,
     <<"l", "s", " ", " ", " ", "-", "l", "a", " ", " ", " ", " ", "/", "t", "m", "p">>,
     <<Backtick, Backtick, Backtick, "l", "s", " ", "-", "l", "a", Backtick, Backtick, Backtick>>,
     <<"\n", "\n", "l", "s", " ", "-", "l", "a">>,
     <<"l", "s", " ", "-", "l", "a", Backtick>>,
     <<Backtick, Backtick, Backtick, "\n", "e", "c", "h", "o", " ", "'", Backtick, Backtick, Backtick, "'", "\n", Backtick, Backtick, Backtick>>,
     <<" ", " ", " ", "\n", "\n", " ", " ", " ">>,
     <<Backtick, Backtick, Backtick, "b", "a", "s", "h", "\n", "f", "i", "n", "d", " ", ".", " ", " ", "\\", "\n", " ", " ", "-", "t", "y", "p", "e", " ", "f", "\n", Backtick, Backtick, Backtick>>}

\* Fenced replies with prose before the opening fence, prose after the
\* closing fence, two fenced blocks, and a blank line inside the block.
FencedReplies ==
    {<<"r", "u", "n", ":", "\n", Backtick, Backtick, Backtick, "s", "h", "\n", "l", "s", " ", "-", "l", "a", "\n", Backtick, Backtick, Backtick>>,
     <<Backtick, Backtick, Backtick, "\n", "l", "s", " ", "-", "l", "a", "\n", Backtick, Backtick, Backtick, "\n", "d", "o", "n", "e">>,
     <<Backtick, Backtick, Backtick, "\n", "l", "s", "\n", Backtick, Backtick, Backtick, "\n", Backtick, Backtick, Backtick, "\n", "p", "w", "d", "\n", Backtick, Backtick, Backtick>>,
     <<Backtick, Backtick, Backtick, "b", "a", "s", "h", "\n", "\n", "l", "s", " ", "-", "l", "a", "\n", "p", "w", "d", "\n", Backtick, Backtick, Backtick>>}

Replies == PieceReplies \cup LanguageReplies \cup TestReplies \cup FencedReplies

SanInit ==
    /\ raw \in Replies
    /\ path \in {"http", "cli", "clean"}
    /\ stage = "raw"
    /\ text = raw
    /\ RegIdle
    /\ TimeIdle
    /\ QueryIdle
    /\ RunIdle

\* runHowto: command := prompt.SanitizeCommand(response)
ApplySanitizeCommand ==
    /\ \/ path = "http" /\ stage = "raw"
       \/ path = "cli" /\ stage = "cleaned"
    /\ text' = SanitizeCommand(text)
    /\ stage' = "command"
    /\ UNCHANGED <<raw, path>>
    /\ UNCHANGED <<regVars, timeVars, queryVars, runVars>>

\* SanitizeCommand applied to its own result.
ApplySanitizeAgain ==
    /\ path = "http" /\ stage = "command"
    /\ text' = SanitizeCommand(text)
    /\ stage' = "again"
    /\ UNCHANGED <<raw, path>>
    /\ UNCHANGED <<regVars, timeVars, queryVars, runVars>>

\* queryCopilot: result := CleanCopilotResponse(strings.TrimSpace(stdout))
ApplyCleanCopilotResponse ==
    /\ path = "cli" /\ stage = "raw"
    /\ text' = CleanCopilotResponse(TrimSpace(text))
    /\ stage' = "cleaned"
    /\ UNCHANGED <<raw, path>>
    /\ UNCHANGED <<regVars, timeVars, queryVars, runVars>>

\* CleanCopilotResponse called on a reply as it stands, as the tests do.
CallCleanCopilotResponse ==
    /\ path = "clean" /\ stage = "raw"
    /\ text' = CleanCopilotResponse(text)
    /\ stage' = "cleaned"
    /\ UNCHANGED <<raw, path>>
    /\ UNCHANGED <<regVars, timeVars, queryVars, runVars>>

SanNext ==
    \/ ApplySanitizeCommand
    \/ ApplySanitizeAgain
    \/ ApplyCleanCopilotResponse
    \/ CallCleanCopilotResponse

SpecSanitize == SanInit /\ [][SanNext]_vars


(***************************************************************************)
(* Query: the two HTTP pipelines and the gh copilot subprocess             *)
(***************************************************************************)
ProviderByName(n) ==
    CASE n = "OpenAI" -> OpenAI
      [] n = "Anthropic" -> Anthropic
      [] n = "Gemini" -> Gemini
      [] n = "DeepSeek" -> DeepSeek
      [] OTHER -> GitHubCopilot

\* JSON values of the fields the decoders look at.
Absent == [t |-> "absent"]

JNull == [t |-> "null"]

JString(v) == [t |-> "string", v |-> v]

JErrorObject(msg) == [t |-> "object", message |-> msg]

JArray(items) == [t |-> "array", items |-> items]

\* json.Unmarshal(body, &chatResp): fails on a body that is not JSON and on
\* a field of the wrong JSON type; absent and null fields stay zero.
UnmarshalChatResponse(body) ==
    IF ~body.json THEN [ok |-> FALSE]
    ELSE IF body.error.t \notin {"absent", "null", "object"} THEN [ok |-> FALSE]
    ELSE IF body.choices.t \notin {"absent", "null", "array"} THEN [ok |-> FALSE]
    ELSE [ok |-> TRUE,
          hasError |-> body.error.t = "object",
          Message |-> IF body.error.t = "object" THEN body.error.message ELSE "",
          Choices |-> IF body.choices.t = "array" THEN body.choices.items ELSE <<>>]

\* json.Unmarshal(body, &anthropicResp)
UnmarshalAnthropicResponse(body) ==
    IF ~body.json THEN [ok |-> FALSE]
    ELSE IF body.error.t \notin {"absent", "null", "object"} THEN [ok |-> FALSE]
    ELSE IF body.content.t \notin {"absent", "null", "array"} THEN [ok |-> FALSE]
    ELSE [ok |-> TRUE,
          hasError |-> body.error.t = "object",
          Message |-> IF body.error.t = "object" THEN body.error.message ELSE "",
          Content |-> IF body.content.t = "array" THEN body.content.items ELSE <<>>]

Failure(err) == [text |-> <<>>, err |-> err]

Success(t) == [text |-> t, err |-> NoError]

\* queryOpenAICompatible with the status test ahead of the error-object test.
queryOpenAICompatibleStatusFirst(p, x) ==
    IF x.net = "sendFails"
    THEN IF x.ctxErr = "DeadlineExceeded"
         THEN Failure([kind |-> "Timeout", msg |-> "request timed out"])
         ELSE Failure([kind |-> "TransportError", msg |-> "failed to send request"])
    ELSE IF x.net = "readFails"
    THEN Failure([kind |-> "TransportError", msg |-> "failed to read response"])
    ELSE LET chatResp == UnmarshalChatResponse(x.body) IN
         IF ~chatResp.ok
         THEN Failure([kind |-> "DecodeError", msg |-> "failed to parse response"])
         ELSE IF x.status # 200
         THEN Failure([kind |-> "ApiError", status |-> x.status, body |-> x.body])
         ELSE IF chatResp.hasError
         THEN Failure([kind |-> "ApiError", message |-> chatResp.Message])
         ELSE IF Len(chatResp.Choices) > 0
         THEN Success(chatResp.Choices[1])
         ELSE Failure([kind |-> "EmptyResponse", msg |-> "no response from", name |-> p.Name])

queryOpenAICompatible(p, x) ==
    IF x.net = "sendFails"
    THEN IF x.ctxErr = "DeadlineExceeded"
         THEN Failure([kind |-> "Timeout", msg |-> "request timed out"])
         ELSE Failure([kind |-> "TransportError", msg |-> "failed to send request"])
    ELSE IF x.net = "readFails"
    THEN Failure([kind |-> "TransportError", msg |-> "failed to read response"])
    ELSE LET chatResp == UnmarshalChatResponse(x.body) IN
         IF ~chatResp.ok
         THEN Failure([kind |-> "DecodeError", msg |-> "failed to parse response"])
         ELSE IF chatResp.hasError
         THEN Failure([kind |-> "ApiError", message |-> chatResp.Message])
         ELSE IF x.status # 200
         THEN Failure([kind |-> "ApiError", status |-> x.status, body |-> x.body])
         ELSE IF Len(chatResp.Choices) > 0
         THEN Success(chatResp.Choices[1])
         ELSE Failure([kind |-> "EmptyResponse", msg |-> "no response from", name |-> p.Name])

queryAnthropic(p, x) ==
    IF x.net = "sendFails"
    THEN IF x.ctxErr = "DeadlineExceeded"
         THEN Failure([kind |-> "Timeout", msg |-> "request timed out"])
         ELSE Failure([kind |-> "TransportError", msg |-> "failed to send request"])
    ELSE IF x.net = "readFails"
    THEN Failure([kind |-> "TransportError", msg |-> "failed to read response"])
    ELSE LET anthropicResp == UnmarshalAnthropicResponse(x.body) IN
         IF ~anthropicResp.ok
         THEN Failure([kind |-> "DecodeError", msg |-> "failed to parse response",
                       body |-> x.body])
         ELSE IF anthropicResp.hasError
         THEN Failure([kind |-> "ApiError", message |-> anthropicResp.Message])
         ELSE IF x.status # 200
         THEN Failure([kind |-> "ApiError", status |-> x.status, body |-> x.body])
         ELSE IF Len(anthropicResp.Content) > 0 /\ anthropicResp.Content[1].type = "text"
         THEN Success(anthropicResp.Content[1].text)
         ELSE Failure([kind |-> "EmptyResponse", msg |-> "no response from Anthropic"])

\* handleCopilotError with the subscription test ahead of the login test.
handleCopilotErrorSubscriptionFirst(x) ==
    IF x.ctxErr = "DeadlineExceeded"
    THEN [kind |-> "Timeout", msg |-> "request timed out"]
    ELSE IF x.ctxErr = "Canceled"
    THEN [kind |-> "Canceled", msg |-> "request canceled"]
    ELSE IF Contains(x.stderr, <<"n", "o", "t", " ", "i", "n", "s", "t", "a", "l", "l", "e", "d">>) \/ Contains(x.stderr, <<"e", "x", "t", "e", "n", "s", "i", "o", "n">>)
    THEN [kind |-> "ToolNotAvailable"]
    ELSE IF Contains(x.stderr, <<"s", "u", "b", "s", "c", "r", "i", "p", "t", "i", "o", "n">>)
    THEN [kind |-> "SubscriptionRequired"]
    ELSE IF Contains(x.stderr, <<"a", "u", "t", "h">>) \/ Contains(x.stderr, <<"l", "o", "g", "i", "n">>)
    THEN [kind |-> "NotAuthenticated"]
    ELSE [kind |-> "SubprocessError", msg |-> "gh copilot failed", stderr |-> x.stderr]

handleCopilotError(x) ==
    IF x.ctxErr = "DeadlineExceeded"
    THEN [kind |-> "Timeout", msg |-> "request timed out"]
    ELSE IF x.ctxErr = "Canceled"
    THEN [kind |-> "Canceled", msg |-> "request canceled"]
    ELSE IF Contains(x.stderr, <<"n", "o", "t", " ", "i", "n", "s", "t", "a", "l", "l", "e", "d">>) \/ Contains(x.stderr, <<"e", "x", "t", "e", "n", "s", "i", "o", "n">>)
    THEN [kind |-> "ToolNotAvailable"]
    ELSE IF Contains(x.stderr, <<"a", "u", "t", "h">>) \/ Contains(x.stderr, <<"l", "o", "g", "i", "n">>)
    THEN [kind |-> "NotAuthenticated"]
    ELSE IF Contains(x.stderr, <<"s", "u", "b", "s", "c", "r", "i", "p", "t", "i", "o", "n">>)
    THEN [kind |-> "SubscriptionRequired"]
    ELSE [kind |-> "SubprocessError", msg |-> "gh copilot failed", stderr |-> x.stderr]

queryCopilot(p, x) ==
    IF ~x.ghFound THEN Failure([kind |-> "ToolNotFound"])
    ELSE IF x.runFails THEN Failure(handleCopilotError(x))
    ELSE LET result == TrimSpace(x.stdout) IN
         IF result = <<>>
         THEN Failure([kind |-> "EmptyResponse", msg |-> "no suggestion from GitHub Copilot"])
         ELSE Success(CleanCopilotResponse(result))

Query(p, x) ==
    IF p.AuthType = "AuthCLI" THEN queryCopilot(p, x)
    ELSE IF p.Name = "Anthropic" THEN queryAnthropic(p, x)
    ELSE queryOpenAICompatible(p, x)

(***************************************************************************)
(* The exchanges a Query call is checked against                           *)
(***************************************************************************)
HTTPProviderNames == {"OpenAI", "Anthropic", "Gemini", "DeepSeek"}

Statuses == {200, 401, 500}

ErrorFields == {Absent, JNull, JErrorObject("invalid key"), JString("rate limited")}

ChoicesFields ==
    {Absent, JArray(<<>>), JArray(<<<<"l", "s", " ", "-", "l", "a">>>>), JArray(<< <<>>, <<"p", "w", "d">> >>), JString("none")}

ContentFields ==
    {Absent, JArray(<<>>),
     JArray(<<[type |-> "text", text |-> <<"l", "s", " ", "-", "l", "a">>]>>),
     JArray(<<[type |-> "tool_use", text |-> <<>>], [type |-> "text", text |-> <<"l", "s", " ", "-", "l", "a">>]>>)}

Bodies ==
    {[json |-> FALSE, text |-> "<html>Bad Gateway</html>"], [json |-> FALSE, text |-> ""]}
    \cup [json : {TRUE}, error : ErrorFields, choices : ChoicesFields,
          content : ContentFields]

CtxErrs == {"nil", "DeadlineExceeded", "Canceled"}

Stderrs ==
    {<<>>,
     <<"g", "h", ":", " ", "c", "o", "p", "i", "l", "o", "t", " ", "i", "s", " ", "n", "o", "t", " ", "i", "n", "s", "t", "a", "l", "l", "e", "d">>,
     <<"u", "n", "k", "n", "o", "w", "n", " ", "e", "x", "t", "e", "n", "s", "i", "o", "n">>,
     <<"a", "u", "t", "h", " ", "r", "e", "q", "u", "i", "r", "e", "d">>,
     <<"p", "l", "e", "a", "s", "e", " ", "l", "o", "g", "i", "n">>,
     <<"s", "u", "b", "s", "c", "r", "i", "p", "t", "i", "o", "n", " ", "i", "n", "a", "c", "t", "i", "v", "e">>,
     <<"l", "o", "g", "i", "n", ":", " ", "n", "o", " ", "s", "u", "b", "s", "c", "r", "i", "p", "t", "i", "o", "n">>,
     <<"a", "u", "t", "h", ":", " ", "e", "x", "t", "e", "n", "s", "i", "o", "n", " ", "m", "i", "s", "s", "i", "n", "g">>,
     <<"s", "u", "b", "s", "c", "r", "i", "p", "t", "i", "o", "n", ":", " ", "n", "o", "t", " ", "i", "n", "s", "t", "a", "l", "l", "e", "d">>,
     <<"e", "x", "i", "t", " ", "s", "t", "a", "t", "u", "s", " ", "1">>}

Stdouts ==
    {<<>>,
     <<" ", "\n">>,
     <<"l", "s">>,
     <<Backtick, Backtick, Backtick, "\n", Backtick, Backtick, Backtick>>,
     <<Backtick, Backtick, Backtick, "l", "s">>,
     <<Backtick, "l", "s", Backtick, "\n">>}

HTTPExchanges ==
    {[QuietExchange EXCEPT !.p = n, !.ctxErr = c, !.net = o] :
        n \in HTTPProviderNames, c \in CtxErrs, o \in {"sendFails", "readFails"}}
    \cup {[QuietExchange EXCEPT !.p = n, !.ctxErr = c, !.status = st, !.body = b] :
            n \in HTTPProviderNames, c \in {"nil"}, st \in Statuses, b \in Bodies}

CLIExchanges ==
    {[QuietExchange EXCEPT !.p = GitHubCopilot.Name, !.ghFound = FALSE]}
    \cup {[QuietExchange EXCEPT !.p = GitHubCopilot.Name, !.ctxErr = c,
                                !.runFails = TRUE, !.stderr = e] :
            c \in CtxErrs, e \in Stderrs}
    \cup {[QuietExchange EXCEPT !.p = GitHubCopilot.Name, !.stdout = o] : o \in Stdouts}

QueryInit ==
    /\ qin \in HTTPExchanges \cup CLIExchanges
    /\ qret = NoQuery
    /\ RegIdle
    /\ TimeIdle
    /\ SanIdle
    /\ RunIdle

CallQuery ==
    /\ ~qret.called
    /\ LET r == Query(ProviderByName(qin.p), qin) IN
       qret' = [called |-> TRUE, text |-> r.text, err |-> r.err]
    /\ UNCHANGED qin
    /\ UNCHANGED <<regVars, timeVars, sanVars, runVars>>

QueryNext == CallQuery

SpecQuery == QueryInit /\ [][QueryNext]_vars

(***************************************************************************)
(* One run of the command: runHowto, from provider resolution to delivery  *)
(***************************************************************************)
\* A line on standard output: an error or information message of package
\* ui, or the command itself.
ErrorLine(m) == [kind |-> "error", msg |-> m, text |-> <<>>]

InfoLine(m) == [kind |-> "info", msg |-> m, text |-> <<>>]

CommandLine(c) == [kind |-> "command", msg |-> "", text |-> c]

getProvider(flag, e, gh, works) ==
    IF flag # ""
    THEN LET r == GetByName(flag, e, gh, works) IN
         IF r.err # ""
         THEN [p |-> Nil, key |-> "", mark |-> FALSE,
               err |-> [kind |-> r.err, msg |-> "failed to get provider"],
               printed |-> <<ErrorLine("Provider not found or not configured")>>]
         ELSE [p |-> r.p, key |-> r.key, mark |-> r.mark, err |-> NoError,
               printed |-> <<>>]
    ELSE LET r == Detect(e, gh, works) IN
         IF r.p = Nil
         THEN [p |-> Nil, key |-> "", mark |-> FALSE,
               err |-> [kind |-> "NotConfigured", msg |-> "no provider configured"],
               printed |-> <<ErrorLine("No API key found"), InfoLine("Set one of")>>]
         ELSE [p |-> r.p, key |-> r.key, mark |-> r.mark, err |-> NoError,
               printed |-> <<>>]

\* The lookup reaches IsCopilotAvailable with gh on the search path, so that
\* "gh copilot -- --version" is executed: its exit status decides the lookup.
ProbeRuns(flag, e, gh) ==
    gh /\ getProvider(flag, e, TRUE, TRUE) # getProvider(flag, e, TRUE, FALSE)

\* exec.Command(ghPath, "copilot", "--", "--version"): no context.
ProbeRequest ==
    [kind |-> "subprocess", args |-> "copilot -- --version", model |-> "",
     ctx |-> FALSE]

\* The requests of a Query call that tries a second time.
QueryRequestsTwice(p, model, gh) ==
    IF p.AuthType = "AuthCLI"
    THEN IF gh
         THEN LET r == [kind |-> "subprocess", args |-> "copilot -- -p -s",
                        model |-> IF model # "" /\ model # "gpt-4" THEN model ELSE "",
                        ctx |-> TRUE]
              IN <<r, r>>
         ELSE <<>>
    ELSE LET r == [kind |-> "http", args |-> p.Name, model |-> model, ctx |-> TRUE]
         IN <<r, r>>

\* The requests one Query call issues: client.Do(req) with the context, or
\* exec.CommandContext(ctx, ghPath, args...) once gh has been found.
QueryRequests(p, model, gh) ==
    IF p.AuthType = "AuthCLI"
    THEN IF gh
         THEN <<[kind |-> "subprocess", args |-> "copilot -- -p -s",
                 model |-> IF model # "" /\ model # "gpt-4" THEN model ELSE "",
                 ctx |-> TRUE]>>
         ELSE <<>>
    ELSE <<[kind |-> "http", args |-> p.Name, model |-> model, ctx |-> TRUE]>>

\* terminal.InsertInput: without raw mode (and on Windows) the command is
\* printed; otherwise each character goes through the TIOCSTI ioctl, whose
\* result is not looked at.
InsertInput(cmd, tty) ==
    IF tty = "noRawMode"
    THEN [printed |-> <<CommandLine(cmd)>>, typed |-> <<>>]
    ELSE IF tty = "noTIOCSTI"
    THEN [printed |-> <<>>, typed |-> <<>>]
    ELSE [printed |-> <<>>, typed |-> cmd]

Terminals == {"inserts", "noRawMode", "noTIOCSTI"}

ProviderFlags == {"", "Anthropic", "copilot", "UnknownProvider"}

ModelFlags == {"", "gpt-4o-mini"}

HowtoProviders == {"", "Anthropic"}

HowtoModels == {"", "o3-mini"}

\* The environments of a run: the two first keys set or unset.
RunEnvs ==
    {[v \in EnvVars |-> IF v = "OPENAI_API_KEY" THEN a
                        ELSE IF v = "ANTHROPIC_API_KEY" THEN b ELSE ""] :
        a \in {"", TestKey["OPENAI_API_KEY"]}, b \in {"", TestKey["ANTHROPIC_API_KEY"]}}

\* Replies of a run: a bare command, a fenced command, an empty reply and
\* an empty fenced block.
RunReplies ==
    {<<"l", "s", " ", "-", "l", "a">>,
     <<Backtick, Backtick, Backtick, "b", "a", "s", "h", "\n", "l", "s", " ", "-", "l", "a", "\n", Backtick, Backtick, Backtick>>,
     <<>>,
     Fence \o <<"\n">> \o Fence}

\* What the provider does when it answers: a reply, or a failure.
RunExchanges ==
    {[QuietExchange EXCEPT
        !.body = [json |-> TRUE, error |-> Absent, choices |-> JArray(<<reply>>),
                  content |-> JArray(<<[type |-> "text", text |-> reply]>>)],
        !.stdout = reply] : reply \in RunReplies}
    \cup {[QuietExchange EXCEPT !.net = "sendFails", !.runFails = TRUE,
                                !.stderr = <<"e", "x", "i", "t", " ", "s", "t", "a", "t", "u", "s", " ", "1">>]}

RunInit ==
    /\ rin \in [providerFlag : ProviderFlags, modelFlag : ModelFlags,
                dryRunFlag : BOOLEAN, HOWTO_PROVIDER : HowtoProviders,
                HOWTO_MODEL : HowtoModels, tty : Terminals,
                probeHangs : BOOLEAN, answers : BOOLEAN]
    /\ env \in RunEnvs
    /\ ghInstalled \in BOOLEAN
    /\ copilotWorks \in BOOLEAN
    /\ copilotWorks => ghInstalled
    /\ rin.probeHangs => (ghInstalled /\ ~copilotWorks)
    /\ Configured = [n \in ProviderNames |-> FALSE]
    /\ lastSet = ""
    /\ ret = NoCall
    /\ qin \in RunExchanges
    /\ qret = NoQuery
    /\ pc = "start"
    /\ outbound = <<>>
    /\ chosen = NoProvider
    /\ rerr = NoError
    /\ command = <<>>
    /\ stdout = <<>>
    /\ ttyInput = <<>>
    /\ TimeIdle
    /\ SanIdle

\* getProvider returns: on failure runHowto returns its error.
FinishGetProvider ==
    LET r == getProvider(rin.providerFlag, env, ghInstalled, copilotWorks) IN
    /\ Configured' = IF r.mark THEN [Configured EXCEPT ![r.p] = TRUE] ELSE Configured
    /\ stdout' = stdout \o r.printed
    /\ rerr' = r.err
    /\ chosen' = [p |-> r.p, key |-> r.key, model |-> ""]
    /\ pc' = IF r.err.kind # "none" THEN "done" ELSE "resolved"
    /\ UNCHANGED <<rin, command, ttyInput>>
    /\ UNCHANGED <<env, ghInstalled, copilotWorks, lastSet, ret>>
    /\ UNCHANGED <<timeVars, sanVars, queryVars>>

\* runHowto calls getProvider; the lookup either returns at once or starts
\* the version probe and waits for it.
StartGetProvider ==
    /\ pc = "start"
    /\ IF ProbeRuns(rin.providerFlag, env, ghInstalled)
       THEN /\ outbound' = Append(outbound, ProbeRequest)
            /\ pc' = "probing"
            /\ UNCHANGED <<rin, chosen, rerr, command, stdout, ttyInput>>
            /\ UNCHANGED <<regVars, timeVars, sanVars, queryVars>>
       ELSE /\ FinishGetProvider
            /\ UNCHANGED outbound

\* cmd.Run() of the version probe returns.
ProbeReturns ==
    /\ pc = "probing"
    /\ ~rin.probeHangs
    /\ FinishGetProvider
    /\ UNCHANGED outbound

\* runHowto picks the model and the timeout, arms the deadline and calls
\* Query, which issues its request.
StartQuery ==
    /\ pc = "resolved"
    /\ LET p == ProviderByName(chosen.p)
           model == IF rin.modelFlag = "" THEN p.DefaultModel ELSE rin.modelFlag
       IN /\ chosen' = [chosen EXCEPT !.model = model]
          /\ outbound' = outbound \o QueryRequests(p, model, ghInstalled)
    /\ tret' = [called |-> TRUE, d |-> GetTimeout(flagTimeout, howtoTimeout)]
    /\ pc' = "querying"
    /\ UNCHANGED <<rin, rerr, command, stdout, ttyInput>>
    /\ UNCHANGED <<flagTimeout, howtoTimeout>>
    /\ UNCHANGED <<regVars, sanVars, queryVars>>

\* The request is out and its peer never answers.
Blocked ==
    /\ ~rin.answers
    /\ QueryRequests(ProviderByName(chosen.p), chosen.model, ghInstalled) # <<>>

\* The timer of context.WithTimeout fires while the request is out.
DeadlineFires ==
    /\ pc = "querying"
    /\ Blocked
    /\ pc' = "expired"
    /\ UNCHANGED <<rin, outbound, chosen, rerr, command, stdout, ttyInput>>
    /\ UNCHANGED <<regVars, timeVars, sanVars, queryVars>>

\* What Query sees of the outside world: the exchange as drawn, or the
\* request cut short by the expired deadline.
Exchange ==
    IF pc = "expired"
    THEN [qin EXCEPT !.p = chosen.p, !.ghFound = ghInstalled,
                     !.ctxErr = "DeadlineExceeded", !.net = "sendFails",
                     !.runFails = TRUE, !.stderr = <<>>, !.stdout = <<>>]
    ELSE [qin EXCEPT !.p = chosen.p, !.ghFound = ghInstalled]

\* Query returns and runHowto finishes: the error is printed and returned,
\* or the reply is sanitized and printed (dry run) or handed to InsertInput.
QueryReturns ==
    /\ \/ pc = "expired"
       \/ pc = "querying" /\ ~Blocked
    /\ LET r == Query(ProviderByName(chosen.p), Exchange)
           c == SanitizeCommand(r.text)
           t == InsertInput(c, rin.tty)
       IN /\ qret' = [called |-> TRUE, text |-> r.text, err |-> r.err]
          /\ rerr' = r.err
          /\ IF r.err.kind # "none"
             THEN /\ stdout' = Append(stdout, ErrorLine("Failed to query"))
                  /\ UNCHANGED <<command, ttyInput>>
             ELSE /\ command' = c
                  /\ IF rin.dryRunFlag
                     THEN /\ stdout' = stdout \o <<InfoLine("Provider"), CommandLine(c)>>
                          /\ UNCHANGED ttyInput
                     ELSE /\ stdout' = stdout \o t.printed
                          /\ ttyInput' = ttyInput \o t.typed
    /\ pc' = "done"
    /\ UNCHANGED <<rin, outbound, chosen, qin>>
    /\ UNCHANGED <<regVars, timeVars, sanVars>>

RunNext ==
    \/ StartGetProvider
    \/ ProbeReturns
    \/ StartQuery
    \/ DeadlineFires
    \/ QueryReturns

SpecRun == RunInit /\ [][RunNext]_vars

(***************************************************************************)
(* Properties of a run                                                     *)
(***************************************************************************)
\* C14: in every run, along every path through provider resolution and
\* querying, at most one outbound request (HTTP call or subprocess
\* execution) is issued.
C14_OneOutboundRequest == Len(outbound) <= 1

QueryRequestsIssued == SelectSeq(outbound, LAMBDA r : r # ProbeRequest)

ProbesIssued == SelectSeq(outbound, LAMBDA r : r = ProbeRequest)

\* C14, amended: in every run at most one query request (HTTP call or
\* gh copilot prompt subprocess) is issued, preceded by at most one
\* gh copilot version probe when provider resolution consults Copilot's
\* availability; after a failed attempt no second attempt is made: a run
\* that holds an error has ended.
C14_OneQueryRequest ==
    /\ Len(QueryRequestsIssued) <= 1
    /\ Len(ProbesIssued) <= 1
    /\ outbound = ProbesIssued \o QueryRequestsIssued
    /\ rerr.kind # "none" => pc = "done"

\* A run that resolved to Copilot has issued the probe and then its one
\* query, which failed, and has ended with that error.
C14_Witness ==
    /\ pc = "done"
    /\ Len(outbound) = 2
    /\ outbound[1] = ProbeRequest
    /\ outbound[2].kind = "subprocess"
    /\ rerr.kind # "none"

CommandsPrinted == SelectSeq(stdout, LAMBDA l : l.kind = "command")

\* C15: every run ends in exactly one of two outcomes: it fails, and then
\* nothing is inserted into the terminal or printed as a command; or it
\* succeeds, and then the sanitized command is delivered exactly once:
\* printed and not inserted under dry run, otherwise inserted (or, where the
\* terminal offers no raw mode, printed by the inserter's fallback).  No run
\* does both or neither.
C15_OneOutcome ==
    pc = "done" =>
        IF rerr.kind # "none"
        THEN CommandsPrinted = <<>> /\ ttyInput = <<>>
        ELSE /\ command = SanitizeCommand(qret.text)
             /\ IF rin.dryRunFlag
                THEN CommandsPrinted = <<CommandLine(command)>> /\ ttyInput = <<>>
                ELSE \/ ttyInput = command /\ CommandsPrinted = <<>>
                     \/ /\ rin.tty = "noRawMode"
                        /\ CommandsPrinted = <<CommandLine(command)>>
                        /\ ttyInput = <<>>

\* C16: when no --provider flag is given and HOWTO_PROVIDER is set, the run
\* uses the provider it names instead of auto-detection; when no --model
\* flag is given and HOWTO_MODEL is set, the query is sent with that model.
C16_EnvOverridesHonoured ==
    /\ (/\ pc \in {"resolved", "querying", "expired", "done"}
        /\ rin.providerFlag = ""
        /\ rin.HOWTO_PROVIDER # "") =>
          LET r == GetByName(rin.HOWTO_PROVIDER, env, ghInstalled, copilotWorks) IN
          chosen.p = r.p
    /\ (/\ QueryRequestsIssued # <<>>
        /\ rin.modelFlag = ""
        /\ rin.HOWTO_MODEL # "") =>
          chosen.model = rin.HOWTO_MODEL

\* C21: a successful query never yields an empty command: whenever Query
\* returns without error its text is not empty, and whenever a run reaches
\* terminal insertion or dry-run printing the sanitized command is not
\* empty; a reply that reduces to nothing is reported as EmptyResponse.
C21_NoEmptyCommand ==
    /\ (qret.called /\ qret.err.kind = "none") => qret.text # <<>>
    /\ (pc = "done" /\ rerr.kind = "none") => command # <<>>
    /\ (/\ qret.called
        /\ chosen.p = GitHubCopilot.Name
        /\ ~qin.runFails
        /\ qin.stdout = Fence \o <<"\n">> \o Fence) => qret.err.kind = "EmptyResponse"

\* C17: every blocking external call of a run is bounded by the deadline,
\* the version probe included, so that a run is never stuck: until it has
\* ended with a command or an error it can always take its next step, the
\* deadline releasing it when the server or gh never responds.
C17_DeadlineBoundsEveryCall == pc # "done" => ENABLED RunNext

(***************************************************************************)
(* Properties of Query                                                     *)
(***************************************************************************)
HTTPResponseArrived == qret.called /\ qin.p \in HTTPProviderNames /\ qin.net = "ok"

\* C9: for an HTTP-backed provider, a response with a non-success status
\* whose body is not JSON is reported as ApiError carrying the status code
\* and the raw body, not as DecodeError.
C9_StatusBeforeDecode ==
    (HTTPResponseArrived /\ qin.status # 200 /\ ~qin.body.json) =>
        /\ qret.err.kind = "ApiError"
        /\ qret.err.status = qin.status
        /\ qret.err.body = qin.body

\* The body decodes into the provider's response type.
BodyParses ==
    /\ qin.body.json
    /\ qin.body.error.t \in {"absent", "null", "object"}
    /\ IF qin.p = "Anthropic"
       THEN qin.body.content.t \in {"absent", "null", "array"}
       ELSE qin.body.choices.t \in {"absent", "null", "array"}

\* C10: for an HTTP-backed provider, whenever the body parses and holds an
\* error object, Query fails with ApiError carrying exactly the provider's
\* message, for every status and whatever choices or content the body also
\* holds, and returns no text.
C10_ErrorObjectWins ==
    (HTTPResponseArrived /\ BodyParses /\ qin.body.error.t = "object") =>
        /\ qret.err = [kind |-> "ApiError", message |-> qin.body.error.message]
        /\ qret.text = <<>>

\* Status 401 with {"error":{"message":"invalid key"}} next to a non-empty
\* choices list has been reported as ApiError "invalid key".
C10_Witness ==
    /\ HTTPResponseArrived
    /\ qin.p = "OpenAI"
    /\ qin.status = 401
    /\ qin.body.json
    /\ qin.body.error = JErrorObject("invalid key")
    /\ qin.body.choices = JArray(<<<<"l", "s", " ", "-", "l", "a">>>>)
    /\ qret.err.kind = "ApiError"
    /\ qret.err.message = "invalid key"

\* The content blocks of the body, as the decoder delivers them.
ContentBlocks ==
    IF qin.body.content.t = "array" THEN qin.body.content.items ELSE <<>>

TextBlocks == {i \in DOMAIN ContentBlocks : ContentBlocks[i].type = "text"}

FirstTextBlock == CHOOSE i \in TextBlocks : \A j \in TextBlocks : i <= j

\* C11: on a successful Anthropic response (status 200, body parses, no
\* error object) Query returns the text of the first content block whose
\* type is "text", wherever it sits in the list, and fails with
\* EmptyResponse only when no block is a text block.
C11_FirstTextBlock ==
    (/\ HTTPResponseArrived
     /\ qin.p = "Anthropic"
     /\ qin.status = 200
     /\ BodyParses
     /\ qin.body.error.t # "object") =>
        IF TextBlocks = {}
        THEN qret.err.kind = "EmptyResponse"
        ELSE /\ qret.err = NoError
             /\ qret.text = ContentBlocks[FirstTextBlock].text

\* C12: whenever the caller's deadline has expired by the time a query
\* fails, the failure is reported as Timeout, at every stage: sending the
\* HTTP request, reading the HTTP response body, and while the Copilot
\* subprocess runs.
C12_DeadlineIsTimeout ==
    (/\ qret.called
     /\ qin.ctxErr = "DeadlineExceeded"
     /\ qret.err.kind # "none") =>
        qret.err.kind = "Timeout"

\* The gh copilot subprocess ran and exited non-zero while the deadline had
\* neither expired nor been cancelled.
CopilotExitFailure ==
    /\ qret.called
    /\ qin.p = GitHubCopilot.Name
    /\ qin.ghFound
    /\ qin.runFails
    /\ qin.ctxErr = "nil"

StderrMentions(words) == \E w \in words : Contains(qin.stderr, w)

NotAvailableWords == {<<"n", "o", "t", " ", "i", "n", "s", "t", "a", "l", "l", "e", "d">>, <<"e", "x", "t", "e", "n", "s", "i", "o", "n">>}

AuthWords == {<<"a", "u", "t", "h">>, <<"l", "o", "g", "i", "n">>}

SubscriptionWords == {<<"s", "u", "b", "s", "c", "r", "i", "p", "t", "i", "o", "n">>}

\* C13: a non-zero exit of the Copilot subprocess, with the deadline neither
\* expired nor cancelled, is classified by the substrings of its error
\* output in a fixed priority: "not installed" or "extension" gives
\* ToolNotAvailable; otherwise "auth" or "login" gives NotAuthenticated;
\* otherwise "subscription" gives SubscriptionRequired; otherwise the raw
\* failure is reported with the error output.  The earliest group wins.
C13_CopilotErrorPriority ==
    CopilotExitFailure =>
        /\ qret.text = <<>>
        /\ IF StderrMentions(NotAvailableWords)
           THEN qret.err.kind = "ToolNotAvailable"
           ELSE IF StderrMentions(AuthWords)
           THEN qret.err.kind = "NotAuthenticated"
           ELSE IF StderrMentions(SubscriptionWords)
           THEN qret.err.kind = "SubscriptionRequired"
           ELSE /\ qret.err.kind = "SubprocessError"
                /\ qret.err.stderr = qin.stderr

\* An error output naming both a login problem and a subscription has been
\* reported as NotAuthenticated.
C13_Witness ==
    /\ CopilotExitFailure
    /\ ~StderrMentions(NotAvailableWords)
    /\ StderrMentions(AuthWords)
    /\ StderrMentions(SubscriptionWords)
    /\ qret.err.kind = "NotAuthenticated"

Init == RegInit /\ TimeIdle /\ SanIdle /\ QueryIdle /\ RunIdle

Next == RegNext

Spec == Init /\ [][Next]_vars

(***************************************************************************)
(* Properties of the registry                                              *)
(***************************************************************************)
\* The documented priority order, with the variable each provider reads.
PriorityNames == <<"OpenAI", "Anthropic", "Gemini", "DeepSeek">>

PriorityVars ==
    <<"OPENAI_API_KEY", "ANTHROPIC_API_KEY", "GEMINI_API_KEY", "DEEPSEEK_API_KEY">>

CopilotCLIAvailable == ghInstalled /\ copilotWorks

\* C1: Detect returns the first provider in the order OpenAI, Anthropic,
\* Gemini, DeepSeek whose variable is non-empty, with that variable's value;
\* with all four empty it returns GitHub Copilot and an empty credential
\* when the CLI is available, and (nil, "") when it is not.
C1_DetectPriority ==
    ret.op = "Detect" =>
        LET set == {i \in 1..4 : env[PriorityVars[i]] # ""} IN
        IF set # {}
        THEN LET first == CHOOSE i \in set : \A j \in set : i <= j IN
             /\ ret.p = PriorityNames[first]
             /\ ret.key = env[PriorityVars[first]]
        ELSE IF CopilotCLIAvailable
             THEN ret.p = "GitHub Copilot" /\ ret.key = ""
             ELSE ret.p = Nil /\ ret.key = ""

\* Detect has just returned OpenAI although Anthropic's key was the one
\* written last and both keys are set.
C1_Witness ==
    /\ ret.op = "Detect"
    /\ ret.p = "OpenAI"
    /\ ret.key = "openai-key"
    /\ lastSet = "ANTHROPIC_API_KEY"
    /\ env["ANTHROPIC_API_KEY"] # ""

\* C2: GetByName classifies every name: an API provider name gives the
\* descriptor and its key, or NotConfigured when the variable is empty; the
\* three Copilot aliases give the Copilot descriptor, or NotConfigured when
\* the CLI is unavailable; any other name gives Unknown; every failure
\* carries a nil descriptor and an empty credential.
C2_GetByNameClassifies ==
    ret.op = "GetByName" =>
        LET n == ret.name
            failure(kind) == ret.err = kind /\ ret.p = Nil /\ ret.key = ""
        IN
        IF \E i \in 1..4 : PriorityNames[i] = n
        THEN LET i == CHOOSE k \in 1..4 : PriorityNames[k] = n IN
             IF env[PriorityVars[i]] # ""
             THEN ret.err = "" /\ ret.p = n /\ ret.key = env[PriorityVars[i]]
             ELSE failure("NotConfigured")
        ELSE IF n \in {"GitHub Copilot", "Copilot", "copilot"}
             THEN IF CopilotCLIAvailable
                  THEN ret.err = "" /\ ret.p = "GitHub Copilot" /\ ret.key = ""
                  ELSE failure("NotConfigured")
             ELSE failure("Unknown")

\* GetByName("OpenAI") has just failed with NotConfigured on an unset key.
C2_Witness ==
    /\ ret.op = "GetByName"
    /\ ret.name = "OpenAI"
    /\ env["OPENAI_API_KEY"] = ""
    /\ ret.err = "NotConfigured"
    /\ ret.p = Nil

\* C3: whenever a lookup has just returned, no API-key descriptor carries a
\* Configured flag persisted from an earlier call: a descriptor whose flag
\* is true has a non-empty environment variable at that moment.
C3_ConfiguredNeverPersisted ==
    ret.op \in {"Detect", "GetByName", "ListAll"} =>
        \A i \in 1..4 : Configured[PriorityNames[i]] => (env[PriorityVars[i]] # "")

\* C4: ListAll returns exactly five records with pairwise distinct names in
\* the order OpenAI, Anthropic, Gemini, DeepSeek, GitHub Copilot; each
\* API-key record's Configured equals whether its variable is non-empty at
\* the call; the call leaves every descriptor's Configured flag unchanged.
C4_ListAllRecords ==
    [][CallListAll =>
        /\ Len(ret'.list) = 5
        /\ \A i, j \in 1..5 : i # j => ret'.list[i].Name # ret'.list[j].Name
        /\ \A i \in 1..4 :
            /\ ret'.list[i].Name = PriorityNames[i]
            /\ ret'.list[i].Configured = (env[PriorityVars[i]] # "")
        /\ ret'.list[5].Name = "GitHub Copilot"
        /\ Configured' = Configured]_vars

\* ListAll has just reported OpenAI ready and Anthropic not configured while
\* the shared Anthropic descriptor still carries the flag of an earlier lookup.
C4_Witness ==
    /\ ret.op = "ListAll"
    /\ ret.list[1].Configured
    /\ ~ret.list[2].Configured
    /\ Configured["Anthropic"]

(***************************************************************************)
(* Properties of the sanitizers                                            *)
(***************************************************************************)
\* C6: SanitizeCommand is idempotent: applied to its own result it returns
\* that result.
C6_SanitizeIdempotent ==
    (path = "http" /\ stage = "again") => text = SanitizeCommand(raw)

\* C7: the command produced on the CLI path, SanitizeCommand after
\* CleanCopilotResponse after trimming, equals the command produced on the
\* HTTP path, SanitizeCommand of the same raw reply.
C7_ProviderIndependent ==
    (path = "cli" /\ stage = "command") => text = SanitizeCommand(raw)

\* t begins with the word w: it is w, or w followed by a space.
BeginsWithWord(t, w) == t = w \/ HasPrefix(t, w \o <<" ">>)

\* C8: a reply that begins with a language word, in any casing, immediately
\* followed by a line break is sanitized to a command that does not begin
\* with that word (replies whose remainder is blank or holds the word again
\* set aside).
C8_LanguageWordStripped ==
    (path = "http" /\ stage = "command") =>
        \A i \in 1..Len(Languages) :
            LET lang == Languages[i]
                rest == SubSeq(raw, Len(lang) + 2, Len(raw))
            IN (/\ HasPrefix(ToLower(raw), lang \o <<"\n">>)
                /\ TrimSpace(rest) # <<>>
                /\ ~Contains(ToLower(rest), lang))
               => ~BeginsWithWord(ToLower(text), lang)

LanguageWords == {Languages[i] : i \in 1..Len(Languages)}

\* A fence-marker line: after trimming, a triple backtick optionally
\* followed by a language tag.
FenceMarkerLine(l) ==
    LET t == TrimSpace(l) IN
    /\ HasPrefix(t, Fence)
    /\ \/ Len(t) = 3
       \/ ToLower(SubSeq(t, 4, Len(t))) \in LanguageWords

RawLines == Split(raw)

\* The text of a line as it appears within a single-line command.
OneLine(l) == TrimSpace(CollapseSpaces(l))

\* C18: wherever fence-marker lines occur in a reply, SanitizeCommand
\* discards every fence-marker line and retains the text of every other
\* line: for a reply whose other lines hold no backtick, the command holds
\* no triple-backtick marker and holds the text of every line that is
\* neither a fence-marker line nor a bare language word.
C18_FenceLinesDiscarded ==
    (/\ path = "http"
     /\ stage = "command"
     /\ \A i \in DOMAIN RawLines :
            FenceMarkerLine(RawLines[i]) \/ ~Contains(RawLines[i], <<Backtick>>)) =>
        /\ ~Contains(text, Fence)
        /\ \A i \in DOMAIN RawLines :
              (/\ ~FenceMarkerLine(RawLines[i])
               /\ ToLower(TrimSpace(RawLines[i])) \notin LanguageWords)
              => Contains(text, OneLine(RawLines[i]))

\* C19: SanitizeCommand returns a single bare line for every reply: no line
\* break, no run of two or more spaces, no leading or trailing whitespace;
\* and the empty reply, a whitespace-only reply and an empty fenced block
\* give the empty command.
C19_SingleBareLine ==
    (path = "http" /\ stage = "command") =>
        /\ \A i \in DOMAIN text : text[i] # "\n"
        /\ \A i \in DOMAIN text : i < Len(text) => ~(text[i] = " " /\ text[i + 1] = " ")
        /\ text # <<>> => (~IsSpace(text[1]) /\ ~IsSpace(text[Len(text)]))
        /\ (\A i \in DOMAIN raw : IsSpace(raw[i])) => text = <<>>
        /\ raw = Fence \o <<"\n">> \o Fence => text = <<>>

\* A reply of several lines with a run of spaces has been sanitized to a
\* command that is not empty.
C19_Witness ==
    /\ path = "http"
    /\ stage = "command"
    /\ \E i \in DOMAIN raw : raw[i] = "\n"
    /\ ContainsDoubleSpace(raw)
    /\ text # <<>>

\* The lines CleanCopilotResponse retains, by position: not a line whose
\* trimmed form starts with a triple backtick, and not a blank line that
\* has only such lines and blank lines before it.
RetainedLines(lines) ==
    {i \in DOMAIN lines :
        /\ ~HasPrefix(TrimSpace(lines[i]), Fence)
        /\ \/ TrimSpace(lines[i]) # <<>>
           \/ \E j \in 1..(i - 1) :
                 /\ ~HasPrefix(TrimSpace(lines[j]), Fence)
                 /\ TrimSpace(lines[j]) # <<>>}

\* The retained lines in order, joined with line breaks.
RetainedText(lines) ==
    LET kept == RetainedLines(lines)
        nth(k) == CHOOSE i \in kept : Cardinality({j \in kept : j <= i}) = k
    IN Join([k \in 1..Cardinality(kept) |-> lines[nth(k)]])

ExpectedClean(response) == TrimSpace(TrimBackticks(RetainedText(Split(response))))

\* C20: CleanCopilotResponse drops every line whose trimmed form starts with
\* a triple backtick, drops blank lines before the first retained line,
\* retains every other line verbatim and in order, joined with line breaks,
\* then strips leading and trailing backticks and finally surrounding
\* whitespace; a line that holds a triple backtick after other text is
\* retained.
C20_CleanCopilotResponse ==
    /\ (path = "clean" /\ stage = "cleaned") => text = ExpectedClean(raw)
    /\ (path = "cli" /\ stage = "cleaned") => text = ExpectedClean(TrimSpace(raw))

\* A fenced reply has been cleaned to a command that still holds a line
\* break.
C20_Witness ==
    /\ path = "clean"
    /\ stage = "cleaned"
    /\ \E i \in DOMAIN RawLines : HasPrefix(TrimSpace(RawLines[i]), Fence)
    /\ \E i \in DOMAIN text : text[i] = "\n"

====
